---- MODULE Spec2Model ----
(***************************************************************************)
(* Model of tools/toolchains/iar.py: the IAR toolchain adapter.            *)
(*                                                                         *)
(* Text.  A Python string is a sequence of fragments.  Each of the         *)
(* characters the adapter looks at ('-', '\', '/', '.', '"', ' ', a        *)
(* digit, a newline) is a fragment of its own; any other fragment is a     *)
(* run of ordinary characters.  A command is a sequence of such strings.   *)
(*                                                                         *)
(* os.path is ntpath: the IAR tools run on Windows hosts, which is why     *)
(* the adapter rewrites backslashes.                                       *)
(***************************************************************************)
EXTENDS Naturals, Sequences, FiniteSets

VARIABLES
    target_core,   \* target.core
    options,       \* self.options
    IAR_PATH,      \* tools.settings.IAR_PATH
    self,          \* the attributes __init__ stores
    fs,            \* the filesystem: path -> content, for the files that exist
    pc,            \* per worker, where it is in link / archive
    call,          \* per worker, the invocation in progress
    ret            \* per worker, the last finished invocation and its result

vars == <<target_core, options, IAR_PATH, self, fs, pc, call, ret>>

\* ---------------------------------------------------------------- bounds
NumWorkers == 2
MaxMacros == 2
MaxObjects == 2
MaxLines == 2

Workers == 1..NumWorkers

\* ------------------------------------------------------------------ text
DASH == "-"
BSLASH == "\\"
SLASH == "/"
DOT == "."
QUOTE == "\""
SPACE == " "
NEWLINE == "\n"

None == <<"<None>">>

Flag1(s) == <<DASH, s>>
Flag2(s) == <<DASH, DASH, s>>

SeqsUpTo(S, n) == UNION {[1..k -> S] : k \in 0..n}

RECURSIVE Flatten(_)
Flatten(ss) == IF ss = <<>> THEN <<>> ELSE Head(ss) \o Flatten(Tail(ss))

\* str.replace("\\", "/")
replace_bslash(s) == [i \in 1..Len(s) |-> IF s[i] = BSLASH THEN SLASH ELSE s[i]]

\* '"%s"' % c
quoted(c) == <<QUOTE>> \o c \o <<QUOTE>>

\* c.startswith('-')
startswith_dash(c) == Len(c) > 0 /\ c[1] = DASH

\* " ".join(list)
RECURSIVE join_space(_)
join_space(l) ==
    IF l = <<>> THEN <<>>
    ELSE IF Len(l) = 1 THEN l[1]
    ELSE l[1] \o <<SPACE>> \o join_space(Tail(l))

\* ------------------------------------------------------------- os.path
IsSep(c) == c = SLASH \/ c = BSLASH

\* the largest index i <= n with p[i] a separator, 0 when there is none
RECURSIVE rfind_sep(_, _)
rfind_sep(p, n) ==
    IF n = 0 THEN 0 ELSE IF IsSep(p[n]) THEN n ELSE rfind_sep(p, n - 1)

RECURSIVE rfind_dot(_, _)
rfind_dot(p, n) ==
    IF n = 0 THEN 0 ELSE IF p[n] = DOT THEN n ELSE rfind_dot(p, n - 1)

\* genericpath._splitext: the loop that skips the leading dots of the name
RECURSIVE splitext_scan(_, _, _)
splitext_scan(p, filenameIndex, dotIndex) ==
    IF filenameIndex >= dotIndex THEN <<p, <<>>>>
    ELSE IF p[filenameIndex] # DOT
         THEN <<SubSeq(p, 1, dotIndex - 1), SubSeq(p, dotIndex, Len(p))>>
         ELSE splitext_scan(p, filenameIndex + 1, dotIndex)

splitext(p) ==
    LET sepIndex == rfind_sep(p, Len(p))
        dotIndex == rfind_dot(p, Len(p))
    IN  IF dotIndex > sepIndex
        THEN splitext_scan(p, sepIndex + 1, dotIndex)
        ELSE <<p, <<>>>>

RECURSIVE rstrip_seps(_)
rstrip_seps(h) ==
    IF h # <<>> /\ IsSep(h[Len(h)]) THEN rstrip_seps(SubSeq(h, 1, Len(h) - 1))
    ELSE h

\* ntpath.dirname(p) == ntpath.split(p)[0]
dirname(p) ==
    LET i == rfind_sep(p, Len(p))
        head == SubSeq(p, 1, i)
        head2 == rstrip_seps(head)
    IN  IF head2 # <<>> THEN head2 ELSE head

\* ntpath.join(a, b) for a relative b without a drive
join(a, b) ==
    IF a = <<>> THEN b
    ELSE IF IsSep(a[Len(a)]) THEN a \o b
    ELSE a \o <<BSLASH>> \o b

\* ------------------------------------------------------------ settings
IarPaths == { <<"C:", SLASH, "IAR">> }
GOANNA_PATH == <<"C:", SLASH, "goanna">>
GOANNA_FORMAT == <<"GOANNA_FORMAT">>

\* --------------------------------------------------------------- target
CortexM7 == <<"Cortex", DASH, "M7">>
CortexM7F == <<"Cortex", DASH, "M7", "F">>
CortexM4 == <<"Cortex", DASH, "M4">>
CortexM4F == <<"Cortex", DASH, "M4", "F">>
Cores == {CortexM4, CortexM4F, CortexM7, CortexM7F}
Options == {"debug-info", "analyze"}
target_name == <<"K64F">>
toolchain_name == <<"IAR">>

\* ------------------------------------------------------- IAR.__init__
DEFAULT_FLAGS ==
    [common |-> << Flag2("no_wrap_diagnostics"), Flag1("e"),
                   Flag2("diag_suppress=Pa050,Pa084,Pa093,Pa082") >>,
     asm |-> <<>>,
     c |-> <<>>,
     cxx |-> << Flag2("guard_calls") >>,
     ld |-> << Flag2("skip_dynamic_initialization"), Flag2("threaded_lib") >>]

cpuchoice_verbatim(core) == core

cpuchoice(core) == IF core = CortexM7F THEN CortexM7 ELSE core

asm_flags_cmd(core) ==
    << Flag2("cpu"), cpuchoice(core) >>
    \o (IF core = CortexM7F THEN << Flag2("fpu"), <<"VFPv5_sp">> >> ELSE <<>>)

opt_flags_debug == << Flag1("r"), Flag1("On") >>
opt_flags_default == << Flag1("Oh") >>

opt_flags_no_else(opts) ==
    IF "debug-info" \in opts THEN opt_flags_debug \o opt_flags_default
    ELSE opt_flags_default

opt_flags(opts) ==
    IF "debug-info" \in opts THEN opt_flags_debug ELSE opt_flags_default

c_flags_cmd(core, opts, iar) ==
    << Flag2("cpu"), cpuchoice(core), Flag2("thumb"), Flag2("dlib_config"),
       join(join(join(iar, <<"inc">>), <<"c">>), <<"DLib_Config_Full", DOT, "h">>) >>
    \o (IF core = CortexM7F THEN << Flag2("fpu=VFPv5_sp") >> ELSE <<>>)
    \o opt_flags(opts)

cxx_flags_cmd == << Flag2("c++"), Flag2("no_rtti"), Flag2("no_exceptions") >>

IAR_BIN(iar) == join(iar, <<"bin">>)
main_cc(iar) == join(IAR_BIN(iar), <<"iccarm">>)

\* the front-end part of self.cc / self.cppc (lines 83-88)
cc_frontend(opts, iar) ==
    IF "analyze" \notin opts THEN << main_cc(iar) >>
    ELSE << join(GOANNA_PATH, <<"goannacc">>),
            <<DASH, DASH, "with", DASH, "cc=">> \o quoted(replace_bslash(main_cc(iar))),
            <<DASH, DASH, "dialect=iar", DASH, "arm">>,
            <<DASH, DASH, "output", DASH, "format=">> \o quoted(GOANNA_FORMAT) >>

cppc_frontend(opts, iar) ==
    IF "analyze" \notin opts THEN << main_cc(iar) >>
    ELSE << join(GOANNA_PATH, <<"goannac++">>),
            <<DASH, DASH, "with", DASH, "cxx=">> \o quoted(replace_bslash(main_cc(iar))),
            <<DASH, DASH, "dialect=iar", DASH, "arm">>,
            <<DASH, DASH, "output", DASH, "format=">> \o quoted(GOANNA_FORMAT) >>

\* the flags appended after the front end (lines 89 and 90)
cc_flags_by_frontend(core, opts, iar) ==
    IF "analyze" \in opts
    THEN c_flags_cmd(core, opts, iar) \o DEFAULT_FLAGS.c
    ELSE DEFAULT_FLAGS.common \o c_flags_cmd(core, opts, iar) \o DEFAULT_FLAGS.c

cc_flags(core, opts, iar) ==
    DEFAULT_FLAGS.common \o c_flags_cmd(core, opts, iar) \o DEFAULT_FLAGS.c

cppc_flags(core, opts, iar) ==
    DEFAULT_FLAGS.common \o c_flags_cmd(core, opts, iar) \o cxx_flags_cmd
    \o DEFAULT_FLAGS.cxx

IAR_init(core, opts, iar) ==
    [flags_common |-> DEFAULT_FLAGS.common,
     flags_asm |-> DEFAULT_FLAGS.asm,
     flags_c |-> DEFAULT_FLAGS.c,
     flags_cxx |-> DEFAULT_FLAGS.cxx,
     flags_ld |-> DEFAULT_FLAGS.ld,
     asm |-> << join(IAR_BIN(iar), <<"iasmarm">>) >> \o asm_flags_cmd(core)
             \o DEFAULT_FLAGS.asm,
     cc |-> cc_frontend(opts, iar) \o cc_flags(core, opts, iar),
     cppc |-> cppc_frontend(opts, iar) \o cppc_flags(core, opts, iar),
     ld |-> join(IAR_BIN(iar), <<"ilinkarm">>),
     ar |-> join(IAR_BIN(iar), <<"iarchive">>),
     elf2bin |-> join(IAR_BIN(iar), <<"ielftool">>)]

\* ------------------------------------------------------ Python lists
\* The attributes of self that are list objects.  A call works on a heap
\* holding them and the list object its local name cmd is bound to.
ListRefs == {"asm", "cc", "cppc", "flags_common", "flags_asm", "flags_c",
             "flags_cxx", "flags_ld"}

heap_of(s) == [r \in ListRefs \cup {"cmd"} |-> IF r = "cmd" THEN <<>> ELSE s[r]]

store(s, h) == [f \in DOMAIN s |-> IF f \in ListRefs THEN h[f] ELSE s[f]]

\* left + right: the list object that holds the result (a new one)
list_add_alias(left) == left

list_add(left) == "cmd"

\* r.extend(items)
list_extend(h, r, items) == [h EXCEPT ![r] = @ \o items]

\* ------------------------------------------------------------- hooks
HookKinds == {"default", "custom"}

\* self.hook.get_cmdline_*(cmd): the command unchanged when no hook is
\* registered, else whatever the registered hook returns
get_cmdline(kind, cmd) ==
    IF kind = "default" THEN cmd
    ELSE << <<"wrap">> >> \o Tail(cmd) \o << Flag2("hooked") >>

\* ------------------------------------------- per-translation-unit options
\* mbedToolchain.get_inc_file(includes): the generated file listing them
get_inc_file(includes) ==
    <<DOT, "includes_">> \o Flatten(includes) \o <<DOT, "txt">>

get_dep_option_wrong(object) ==
    << Flag2("dependencies"), object \o <<DOT, "d">> >>

get_dep_option(object) ==
    LET base == splitext(object)[1]
        dep_path == base \o <<DOT, "d">>
    IN  << Flag2("dependencies"), dep_path >>

cc_extra(object) ==
    LET base == splitext(object)[1]
    IN  << Flag1("l"), base \o <<DOT, "s", DOT, "txt">> >>

get_compile_options(defines, includes, config_header) ==
    LET opts == [i \in 1..Len(defines) |-> <<DASH, "D">> \o defines[i]]
                \o << Flag1("f"), get_inc_file(includes) >>
    IN  IF config_header # None
        THEN opts \o << Flag2("preinclude"), config_header >>
        ELSE opts

\* the command assemble builds (line 139)
assemble_cmd_with_dep(asm, opts, source, object) ==
    asm \o opts \o get_dep_option(object) \o cc_extra(object)
    \o << Flag1("o"), object, source >>

assemble_cmd(asm, opts, source, object) ==
    asm \o opts \o << Flag1("o"), object, source >>

\* --------------------------------------------------------- call records
Idle == [op |-> "none"]

\* the caller takes what the method returned; the worker is free again
returned(w) ==
    /\ pc[w] = "returned"
    /\ pc' = [pc EXCEPT ![w] = "idle"]
    /\ ret' = [ret EXCEPT ![w] = Idle]
    /\ UNCHANGED <<target_core, options, IAR_PATH, self, fs, call>>

\* ------------------------------------------------------------ assemble
assemble(w, source, object, includes, symbols, config_header, hook) ==
    /\ pc[w] = "idle"
    /\ LET h0 == heap_of(self)
           r == list_add("asm")
           h1 == [h0 EXCEPT ![r] =
                     assemble_cmd(h0["asm"],
                                  get_compile_options(symbols, includes, config_header),
                                  source, object)]
           cmd == get_cmdline(hook, h1[r])
       IN  /\ self' = store(self, h1)
           /\ ret' = [ret EXCEPT ![w] =
                        [op |-> "assemble",
                         in |-> [source |-> source, object |-> object,
                                 includes |-> includes, symbols |-> symbols,
                                 config_header |-> config_header, hook |-> hook],
                         out |-> << cmd >>]]
    /\ pc' = [pc EXCEPT ![w] = "returned"]
    /\ UNCHANGED <<target_core, options, IAR_PATH, fs, call>>

\* ------------------------------------------------------------- compile
compile(w, name, cc, source, object, includes, symbols, config_header, hook) ==
    /\ pc[w] = "idle"
    /\ LET h0 == heap_of(self)
           r == list_add(cc)
           h1 == [h0 EXCEPT ![r] =
                     h0[cc] \o get_compile_options(symbols, includes, config_header)]
           h2 == list_extend(h1, r, get_dep_option(object))
           h3 == list_extend(h2, r, cc_extra(object))
           h4 == list_extend(h3, r, << Flag1("o"), object, source >>)
           cmd == get_cmdline(hook, h4[r])
       IN  /\ self' = store(self, h4)
           /\ ret' = [ret EXCEPT ![w] =
                        [op |-> name,
                         in |-> [source |-> source, object |-> object,
                                 includes |-> includes, symbols |-> symbols,
                                 config_header |-> config_header, hook |-> hook],
                         out |-> << cmd >>]]
    /\ pc' = [pc EXCEPT ![w] = "returned"]
    /\ UNCHANGED <<target_core, options, IAR_PATH, fs, call>>

compile_c(w, source, object, includes, symbols, config_header, hook) ==
    compile(w, "compile_c", "cc", source, object, includes, symbols,
            config_header, hook)

compile_cpp(w, source, object, includes, symbols, config_header, hook) ==
    compile(w, "compile_cpp", "cppc", source, object, includes, symbols,
            config_header, hook)

\* -------------------------------------------------------------- binary
binary(w, elf, bin, hook) ==
    /\ pc[w] = "idle"
    /\ LET cmd == get_cmdline(hook, << self.elf2bin, Flag2("bin"), elf, bin >>)
       IN  ret' = [ret EXCEPT ![w] =
                     [op |-> "binary",
                      in |-> [elf |-> elf, bin |-> bin, hook |-> hook],
                      exec |-> cmd]]
    /\ pc' = [pc EXCEPT ![w] = "returned"]
    /\ UNCHANGED <<target_core, options, IAR_PATH, self, fs, call>>

\* -------------------------------------------------------- parse_output
Digits == {"0", "1", "2", "7"}
IsDigit(c) == c \in Digits
IsSpace(c) == c = SPACE \/ c = NEWLINE
Severities == {"Warning", "Error"}

\* str.lower() of a severity
lower(f) == IF f = "Warning" THEN "warning" ELSE IF f = "Error" THEN "error" ELSE f

\* the first index >= i of a fragment of the line that is a quote
\* (Len + 1 when there is none): where [^"]+ stops
RECURSIVE scan_not_quote(_, _)
scan_not_quote(line, i) ==
    IF i > Len(line) \/ line[i] = QUOTE THEN i ELSE scan_not_quote(line, i + 1)

\* where [\d]+ stops
RECURSIVE scan_digits(_, _)
scan_digits(line, i) ==
    IF i > Len(line) \/ ~IsDigit(line[i]) THEN i ELSE scan_digits(line, i + 1)

\* where \s+ stops
RECURSIVE scan_space(_, _)
scan_space(line, i) ==
    IF i > Len(line) \/ ~IsSpace(line[i]) THEN i ELSE scan_space(line, i + 1)

\* a regular expression that does not match returns None
NoMatch == [matched |-> FALSE]

\* IAR.DIAGNOSTIC_PATTERN.match(line): the groups, or None
\*   "(?P<file>[^"]+)",(?P<line>[\d]+)\s+(?P<severity>Warning|Error)(?P<message>.+)
DIAGNOSTIC_PATTERN_match(line) ==
    IF Len(line) = 0 \/ line[1] # QUOTE THEN NoMatch
    ELSE LET q == scan_not_quote(line, 2)
         IN  IF q = 2 \/ q + 1 > Len(line) \/ line[q + 1] # "," THEN NoMatch
             ELSE LET d == scan_digits(line, q + 2)
                      k == scan_space(line, d)
                  IN  IF d = q + 2 \/ k = d \/ k > Len(line) THEN NoMatch
                      ELSE IF line[k] \notin Severities \/ k + 1 > Len(line)
                      THEN NoMatch
                      ELSE [matched |-> TRUE,
                            file |-> SubSeq(line, 2, q - 1),
                            line |-> SubSeq(line, q + 2, d - 1),
                            severity |-> line[k],
                            message |-> SubSeq(line, k + 1, Len(line))]

\* mbedToolchain.goanna_parse_line(line): the analysis wrapper's format
\*   "[Goanna] <severity> [<file>:<line>] - <message>"
goanna_parse_line(line) ==
    IF /\ Len(line) >= 14
       /\ SubSeq(line, 1, 3) = <<QUOTE, "[Goanna]", SPACE>>
       /\ line[4] \in {"warning", "error"}
       /\ SubSeq(line, 5, 6) = <<SPACE, "[">>
       /\ line[8] = ":"
       /\ IsDigit(line[9])
       /\ SubSeq(line, 10, 13) = <<"]", SPACE, DASH, SPACE>>
       /\ line[Len(line)] = QUOTE
    THEN [matched |-> TRUE,
          file |-> <<line[7]>>, line |-> <<line[9]>>, severity |-> line[4],
          message |-> SubSeq(line, 14, Len(line) - 1)]
    ELSE NoMatch

\* self.cc_info(severity, file, line, message, target_name, toolchain_name):
\* the record handed to the notifier
cc_info(severity, file, line, message, target, toolchain) ==
    [severity |-> severity, file |-> file, line |-> line, message |-> message,
     target_name |-> target, toolchain_name |-> toolchain]

\* one iteration of the loop (lines 101-118)
line_records_elif(line) ==
    LET match == DIAGNOSTIC_PATTERN_match(line)
        match2 == goanna_parse_line(line)
    IN  IF match.matched
        THEN << cc_info(lower(match.severity), match.file, match.line,
                        match.message, target_name, toolchain_name) >>
        ELSE IF match2.matched
        THEN << cc_info(lower(match2.severity), match2.file, match2.line,
                        match2.message, None, None) >>
        ELSE <<>>

line_records(line) ==
    LET match == DIAGNOSTIC_PATTERN_match(line)
        match2 == goanna_parse_line(line)
    IN  (IF match.matched
         THEN << cc_info(lower(match.severity), match.file, match.line,
                         match.message, target_name, toolchain_name) >>
         ELSE <<>>)
        \o
        (IF match2.matched
         THEN << cc_info(lower(match2.severity), match2.file, match2.line,
                         match2.message, None, None) >>
         ELSE <<>>)

RECURSIVE parse_lines(_)
parse_lines(lines) ==
    IF lines = <<>> THEN <<>>
    ELSE line_records(Head(lines)) \o parse_lines(Tail(lines))

\* output is given as output.splitlines()
parse_output(w, lines) ==
    /\ pc[w] = "idle"
    /\ ret' = [ret EXCEPT ![w] =
                 [op |-> "parse_output", in |-> [lines |-> lines],
                  out |-> parse_lines(lines)]]
    /\ pc' = [pc EXCEPT ![w] = "returned"]
    /\ UNCHANGED <<target_core, options, IAR_PATH, self, fs, call>>

\* -------------------------------------------------- parse_dependencies
\* file.readlines(): the text cut after each newline
RECURSIVE readlines_from(_, _)
readlines_from(text, cur) ==
    IF text = <<>> THEN (IF cur = <<>> THEN <<>> ELSE << cur >>)
    ELSE IF Head(text) = NEWLINE
         THEN << cur \o <<NEWLINE>> >> \o readlines_from(Tail(text), <<>>)
         ELSE readlines_from(Tail(text), cur \o << Head(text) >>)

readlines(text) == readlines_from(text, <<>>)

isspace(s) == s # <<>> /\ \A i \in 1..Len(s) : IsSpace(s[i])

RECURSIVE lstrip(_)
lstrip(s) == IF s # <<>> /\ IsSpace(Head(s)) THEN lstrip(Tail(s)) ELSE s

RECURSIVE rstrip(_)
rstrip(s) ==
    IF s # <<>> /\ IsSpace(s[Len(s)]) THEN rstrip(SubSeq(s, 1, Len(s) - 1)) ELSE s

strip(s) == rstrip(lstrip(s))

RECURSIVE strip_non_blank(_)
strip_non_blank(paths) ==
    IF paths = <<>> THEN <<>>
    ELSE LET path == Head(paths)
         IN  (IF path # <<>> /\ ~isspace(path) THEN << strip(path) >> ELSE <<>>)
             \o strip_non_blank(Tail(paths))

parse_dependencies(w, dep_path) ==
    /\ pc[w] = "idle"
    /\ ret' = [ret EXCEPT ![w] =
                 IF dep_path \in DOMAIN fs
                 THEN [op |-> "parse_dependencies", in |-> [dep_path |-> dep_path],
                       raised |-> FALSE,
                       out |-> strip_non_blank(readlines(fs[dep_path]))]
                 ELSE [op |-> "parse_dependencies", in |-> [dep_path |-> dep_path],
                       raised |-> TRUE, out |-> <<>>]]
    /\ pc' = [pc EXCEPT ![w] = "returned"]
    /\ UNCHANGED <<target_core, options, IAR_PATH, self, fs, call>>

\* ------------------------------------------------------- the inputs
Sources == { <<"main", DOT, "c">> }
Objects == { <<"foo", SLASH, "bar", DOT, "o">>,
             <<"foo", BSLASH, "bar">>,
             <<"foo", DOT, "d", BSLASH, "bar">>,
             <<"foo", SLASH, DOT, "hidden">>,
             <<"a", DOT, "b", DOT, "o">> }
Macros == { <<"A">>, <<"B=2">> }
MacroLists == SeqsUpTo(Macros, MaxMacros)
IncludeLists == { <<>>, << <<"inc">> >> }
ConfigHeaders == { None, <<"mbed_config", DOT, "h">> }

Line_warning ==
    <<QUOTE, "main", DOT, "c", QUOTE, ",", "1", "2", SPACE, "Warning", "[Pa082]:",
      SPACE, "some", SPACE, "message">>
Line_error ==
    <<QUOTE, "a", DOT, "c", QUOTE, ",", "7", SPACE, SPACE, "Error", "[Pe020]">>
Line_banner == <<"IAR", SPACE, "ANSI", SPACE, "C", SLASH, "C++">>
Line_lowercase ==
    <<QUOTE, "a", DOT, "c", QUOTE, ",", "7", SPACE, "warning", ":", "x">>
Line_no_message == <<QUOTE, "a", DOT, "c", QUOTE, ",", "7", SPACE, "Warning">>
Line_indented ==
    <<SPACE, QUOTE, "a", DOT, "c", QUOTE, ",", "7", SPACE, "Warning", "x">>
Line_goanna ==
    <<QUOTE, "[Goanna]", SPACE, "error", SPACE, "[", "f", ":", "1", "]", SPACE, DASH,
      SPACE, "m", QUOTE>>
Line_both ==
    <<QUOTE, "[Goanna]", SPACE, "warning", SPACE, "[", "f", ":", "1", "]", SPACE, DASH,
      SPACE, QUOTE, ",", "1", "2", SPACE, "Warning", SPACE, "x", QUOTE>>
Lines == { Line_warning, Line_error, Line_banner, Line_lowercase, Line_no_message,
           Line_indented, Line_goanna, Line_both }
Outputs == SeqsUpTo(Lines, MaxLines)

DepFile == <<"foo", SLASH, "bar", DOT, "d">>
DepFileBlank == <<"foo", SLASH, "blank", DOT, "d">>
DepFileMissing == <<"foo", SLASH, "missing", DOT, "d">>
DepPaths == { DepFile, DepFileBlank, DepFileMissing }
DepFiles ==
    [p \in {DepFile, DepFileBlank} |->
        IF p = DepFile
        THEN <<"main", DOT, "c", NEWLINE, SPACE, "a", DOT, "h", SPACE, NEWLINE,
               SPACE, NEWLINE, "b", DOT, "h">>
        ELSE <<NEWLINE, SPACE, SPACE, NEWLINE>>]

Elfs == { <<"build", BSLASH, "a", DOT, "elf">> }
Bins == { <<"build", BSLASH, "a", DOT, "bin">> }

\* ----------------------------------------------------- specification
\* One toolchain object, built for any target and option set; the build
\* then calls the methods that return a command or parse text.
Init ==
    /\ target_core \in Cores
    /\ options \in SUBSET Options
    /\ IAR_PATH \in IarPaths
    /\ self = IAR_init(target_core, options, IAR_PATH)
    /\ fs = DepFiles
    /\ pc = [w \in Workers |-> "idle"]
    /\ call = [w \in Workers |-> Idle]
    /\ ret = [w \in Workers |-> Idle]

Next ==
    \/ \E source \in Sources, object \in Objects, includes \in IncludeLists,
          symbols \in MacroLists, config_header \in ConfigHeaders, hook \in HookKinds :
          assemble(1, source, object, includes, symbols, config_header, hook)
    \/ \E source \in Sources, object \in Objects, includes \in IncludeLists,
          symbols \in MacroLists, config_header \in ConfigHeaders, hook \in HookKinds :
          compile_c(1, source, object, includes, symbols, config_header, hook)
    \/ \E source \in Sources, object \in Objects, includes \in IncludeLists,
          symbols \in MacroLists, config_header \in ConfigHeaders, hook \in HookKinds :
          compile_cpp(1, source, object, includes, symbols, config_header, hook)
    \/ \E elf \in Elfs, bin \in Bins, hook \in HookKinds : binary(1, elf, bin, hook)
    \/ \E lines \in Outputs : parse_output(1, lines)
    \/ \E dep_path \in DepPaths : parse_dependencies(1, dep_path)
    \/ returned(1)

Spec == Init /\ [][Next]_vars

\* ------------------------------------------------------------ filesystem
exists(files, path) == path \in DOMAIN files

\* open(path, "wb") ... f.write(text)
write_file(files, path, text) ==
    [q \in DOMAIN files \cup {path} |-> IF q = path THEN text ELSE files[q]]

\* os.remove(path)
remove(files, path) == [q \in DOMAIN files \ {path} |-> files[q]]

\* what a tool started with -f <file> reads
NoFile == <<"<no file>">>
read_file(files, path) == IF exists(files, path) THEN files[path] ELSE NoFile

\* ----------------------------------------------------------------- link
Truthy(x) == x # None /\ x # <<>>

\* one token of the response file (line 188)
response_token_quoted(c) == quoted(c)

response_token(c) == IF ~startswith_dash(c) THEN quoted(c) ELSE c

RECURSIVE response_tokens(_)
response_tokens(cs) ==
    IF cs = <<>> THEN <<>>
    ELSE (IF Head(cs) # <<>> THEN << response_token(Head(cs)) >> ELSE <<>>)
         \o response_tokens(Tail(cs))

\* the text written to the response file (lines 185-190)
link_files_text(cmd) == replace_bslash(join_space(response_tokens(Tail(cmd))))

\* lines 172-190: build the command, call the hook, write the response file
link(w, output, objects, libraries, lib_dirs, mem_map, hook) ==
    /\ pc[w] = "idle"
    /\ LET map_file == splitext(output)[1] \o <<DOT, "map">>
           h0 == heap_of(self)
           r == list_add("cmd")
           h1 == [h0 EXCEPT ![r] =
                     << self.ld, Flag1("o"), output, <<DASH, DASH, "map=">> \o map_file >>
                     \o objects \o libraries \o h0["flags_ld"]]
           h2 == IF Truthy(mem_map)
                 THEN list_extend(h1, r, << Flag2("config"), mem_map >>)
                 ELSE h1
           cmd == get_cmdline(hook, h2[r])
           link_files == join(dirname(output), <<DOT, "link_files", DOT, "txt">>)
           string == link_files_text(cmd)
       IN  /\ self' = store(self, h2)
           /\ fs' = write_file(fs, link_files, string)
           /\ call' = [call EXCEPT ![w] =
                         [op |-> "link",
                          in |-> [output |-> output, objects |-> objects,
                                  libraries |-> libraries, lib_dirs |-> lib_dirs,
                                  mem_map |-> mem_map, hook |-> hook],
                          cmd |-> cmd, cmd_linker |-> cmd[1],
                          response |-> link_files, written |-> string]]
    /\ pc' = [pc EXCEPT ![w] = "link_exec"]
    /\ UNCHANGED <<target_core, options, IAR_PATH, ret>>

\* line 193: self.default_cmd([cmd_linker, '-f', link_files])
link_exec(w) ==
    /\ pc[w] = "link_exec"
    /\ ret' = [ret EXCEPT ![w] =
                 [op |-> "link", in |-> call[w].in, cmd |-> call[w].cmd,
                  response |-> call[w].response, written |-> call[w].written,
                  exec |-> << call[w].cmd_linker, Flag1("f"), call[w].response >>,
                  read |-> read_file(fs, call[w].response)]]
    /\ call' = [call EXCEPT ![w] = Idle]
    /\ pc' = [pc EXCEPT ![w] = "returned"]
    /\ UNCHANGED <<target_core, options, IAR_PATH, self, fs>>

\* -------------------------------------------------------------- archive
RECURSIVE quote_all(_)
quote_all(objects) ==
    IF objects = <<>> THEN <<>>
    ELSE << quoted(Head(objects)) >> \o quote_all(Tail(objects))

\* the text written to the response file (lines 199-203)
archive_files_text(objects) == replace_bslash(join_space(quote_all(objects)))

\* lines 205-206
remove_skipped(files, lib_path) == files

remove_if_exists(files, lib_path) ==
    IF exists(files, lib_path) THEN remove(files, lib_path) ELSE files

\* lines 197-203: write the response file
archive(w, objects, lib_path) ==
    /\ pc[w] = "idle"
    /\ LET archive_files == join(dirname(lib_path), <<DOT, "archive_files", DOT, "txt">>)
           string == archive_files_text(objects)
       IN  /\ fs' = write_file(fs, archive_files, string)
           /\ call' = [call EXCEPT ![w] =
                         [op |-> "archive",
                          in |-> [objects |-> objects, lib_path |-> lib_path],
                          response |-> archive_files, written |-> string,
                          existed |-> exists(fs, lib_path),
                          log |-> << "write" >>]]
    /\ pc' = [pc EXCEPT ![w] = "archive_remove"]
    /\ UNCHANGED <<target_core, options, IAR_PATH, self, ret>>

\* lines 205-206: if exists(lib_path): remove(lib_path)
archive_remove(w) ==
    /\ pc[w] = "archive_remove"
    /\ fs' = remove_if_exists(fs, call[w].in.lib_path)
    /\ call' = [call EXCEPT ![w].log =
                  IF fs' # fs THEN @ \o << "remove" >> ELSE @]
    /\ pc' = [pc EXCEPT ![w] = "archive_exec"]
    /\ UNCHANGED <<target_core, options, IAR_PATH, self, ret>>

\* the library the archiver leaves at lib_path
NewLibrary == <<"!<arch>">>
OldLibrary == <<"old">>

\* line 208: self.default_cmd([self.ar, lib_path, '-f', archive_files])
archive_exec(w) ==
    /\ pc[w] = "archive_exec"
    /\ ret' = [ret EXCEPT ![w] =
                 [op |-> "archive", in |-> call[w].in,
                  response |-> call[w].response, written |-> call[w].written,
                  existed |-> call[w].existed,
                  log |-> call[w].log \o << "exec" >>,
                  exec |-> << self.ar, call[w].in.lib_path, Flag1("f"),
                              call[w].response >>,
                  read |-> read_file(fs, call[w].response),
                  lib_at_exec |-> exists(fs, call[w].in.lib_path)]]
    /\ fs' = write_file(fs, call[w].in.lib_path, NewLibrary)
    /\ call' = [call EXCEPT ![w] = Idle]
    /\ pc' = [pc EXCEPT ![w] = "returned"]
    /\ UNCHANGED <<target_core, options, IAR_PATH, self>>

\* ----------------------------------------- the inputs of link and archive
ObjectTokens == { <<"a", DOT, "o">>, <<"obj", BSLASH, "b", DOT, "o">>, <<>> }
ObjectLists == SeqsUpTo(ObjectTokens, MaxObjects)
LibraryLists == { << <<"lib", SLASH, "libm", DOT, "a">> >> }
LibDirs == { <<>> }
MemMaps == { None, <<>>, <<"dev", BSLASH, "mem", DOT, "icf">> }
LinkOutputs == { <<"build", SLASH, "a", DOT, "elf">>,
                 <<"build", BSLASH, "b", DOT, "elf">> }
LibPaths == { <<"build", SLASH, "liba", DOT, "a">>,
              <<"build", BSLASH, "libb", DOT, "a">> }

\* the link and archive steps need no particular target
InitFiles ==
    /\ target_core \in {CortexM4, CortexM7F}
    /\ options = {}
    /\ IAR_PATH \in IarPaths
    /\ self = IAR_init(target_core, options, IAR_PATH)
    /\ pc = [w \in Workers |-> "idle"]
    /\ call = [w \in Workers |-> Idle]
    /\ ret = [w \in Workers |-> Idle]

\* ------------------------------------------- specification: linking
InitLink == InitFiles /\ fs = << >>

NextLink ==
    \/ \E output \in LinkOutputs, objects \in ObjectLists, libraries \in LibraryLists,
          lib_dirs \in LibDirs, mem_map \in MemMaps, hook \in HookKinds :
          link(1, output, objects, libraries, lib_dirs, mem_map, hook)
    \/ link_exec(1)
    \/ returned(1)

SpecLink == InitLink /\ [][NextLink]_vars

\* ----------------------------------------- specification: archiving
InitArchive ==
    /\ InitFiles
    /\ \E old \in SUBSET LibPaths : fs = [p \in old |-> OldLibrary]

NextArchive ==
    \/ \E objects \in ObjectLists, lib_path \in LibPaths : archive(1, objects, lib_path)
    \/ archive_remove(1)
    \/ archive_exec(1)
    \/ returned(1)

SpecArchive == InitArchive /\ [][NextArchive]_vars

\* --------------------------- specification: several workers of the build
\* The orchestrator calls the methods of one toolchain object from several
\* workers; each worker builds its own artifacts, all in the build directory.
WorkerNames == <<"w1", "w2", "w3", "w4">>
SourceOf(w) == <<"src", BSLASH, WorkerNames[w], DOT, "c">>
ObjectOf(w) == <<"build", BSLASH, WorkerNames[w], DOT, "o">>
ElfOf(w) == <<"build", BSLASH, WorkerNames[w], DOT, "elf">>
BinOf(w) == <<"build", BSLASH, WorkerNames[w], DOT, "bin">>
LibOf(w) == <<"build", BSLASH, "lib", WorkerNames[w], DOT, "a">>

InitPar ==
    /\ target_core = CortexM7F
    /\ options \in {{}, {"analyze", "debug-info"}}
    /\ IAR_PATH \in IarPaths
    /\ self = IAR_init(target_core, options, IAR_PATH)
    /\ fs = DepFiles
    /\ pc = [w \in Workers |-> "idle"]
    /\ call = [w \in Workers |-> Idle]
    /\ ret = [w \in Workers |-> Idle]

NextPar ==
    \E w \in Workers :
        \/ assemble(w, SourceOf(w), ObjectOf(w), <<>>, << <<"A">> >>, None, "default")
        \/ compile_c(w, SourceOf(w), ObjectOf(w), <<>>, << <<"A">> >>, None, "default")
        \/ compile_cpp(w, SourceOf(w), ObjectOf(w), <<>>, << <<"A">> >>, None, "default")
        \/ binary(w, ElfOf(w), BinOf(w), "default")
        \/ parse_output(w, << Line_warning >>)
        \/ parse_dependencies(w, DepFile)
        \/ link(w, ElfOf(w), << ObjectOf(w) >>, <<>>, <<>>, None, "default")
        \/ link_exec(w)
        \/ archive(w, << ObjectOf(w) >>, LibOf(w))
        \/ archive_remove(w)
        \/ archive_exec(w)
        \/ returned(w)

SpecPar == InitPar /\ [][NextPar]_vars

\* =================================================================
\* Properties of the constructed configuration
\* =================================================================
Has(l, t) == \E i \in 1..Len(l) : l[i] = t

\* the token that follows the first occurrence of flag in l
ValueAfter(l, flag) ==
    LET i == CHOOSE j \in 1..Len(l) : l[j] = flag /\ \A k \in 1..(j - 1) : l[k] # flag
    IN  l[i + 1]

RECURSIVE Without(_, _)
Without(l, S) ==
    IF l = <<>> THEN <<>>
    ELSE (IF Head(l) \in S THEN <<>> ELSE << Head(l) >>) \o Without(Tail(l), S)

FpuTokens == { Flag2("fpu"), <<"VFPv5_sp">>, Flag2("fpu=VFPv5_sp") }

IsFloatCore(core) == core[Len(core)] = "F"
Sibling(core) == SubSeq(core, 1, Len(core) - 1)

\* the configuration of the same build for the core without the FPU
SiblingConfig == IAR_init(Sibling(target_core), options, IAR_PATH)

SameBaseCpu ==
    /\ ValueAfter(self.asm, Flag2("cpu")) = ValueAfter(SiblingConfig.asm, Flag2("cpu"))
    /\ ValueAfter(self.cc, Flag2("cpu")) = ValueAfter(SiblingConfig.cc, Flag2("cpu"))
    /\ ValueAfter(self.asm, Flag2("cpu")) = ValueAfter(self.cc, Flag2("cpu"))
    /\ Without(self.asm, FpuTokens) = SiblingConfig.asm
    /\ Without(self.cc, FpuTokens) = SiblingConfig.cc
    /\ Without(self.cppc, FpuTokens) = SiblingConfig.cppc

\* C1 as stated: for every core whose name ends in F (Cortex-M4F, Cortex-M7F)
\* the value after --cpu in the assembler and C prefixes is the one emitted
\* for the sibling core without the F, and the two configurations differ only
\* in the FPU flags.
C1_EveryFloatCoreSharesBaseCpu == IsFloatCore(target_core) => SameBaseCpu

\* C1 amended: Cortex-M7F and Cortex-M7 get the same value after --cpu
\* (Cortex-M7) and differ only in the FPU flags; for every other core, the
\* floating-point Cortex-M4F included, the value after --cpu is the core name
\* itself and no FPU flag is emitted.
C1_OnlyM7FSharesBaseCpu ==
    /\ target_core = CortexM7F =>
          /\ SameBaseCpu
          /\ ValueAfter(self.asm, Flag2("cpu")) = CortexM7
          /\ Has(self.asm, Flag2("fpu")) /\ Has(self.cc, Flag2("fpu=VFPv5_sp"))
    /\ target_core # CortexM7F =>
          /\ ValueAfter(self.asm, Flag2("cpu")) = target_core
          /\ ValueAfter(self.cc, Flag2("cpu")) = target_core
          /\ \A t \in FpuTokens :
                ~Has(self.asm, t) /\ ~Has(self.cc, t) /\ ~Has(self.cppc, t)

C1_Witness ==
    /\ target_core = CortexM7F
    /\ ValueAfter(self.cc, Flag2("cpu")) = CortexM7
    /\ Has(self.asm, Flag2("fpu"))

\* C5: the C prefix and the C++ prefix hold -r and -On exactly when
\* debug-info is among the options, -Oh exactly when it is not, and never
\* both -On and -Oh.
C5_OptimizationExclusive ==
    \A l \in {self.cc, self.cppc} :
        /\ ("debug-info" \in options) <=> (Has(l, Flag1("r")) /\ Has(l, Flag1("On")))
        /\ ("debug-info" \notin options) <=> Has(l, Flag1("Oh"))
        /\ Has(l, Flag1("r")) <=> Has(l, Flag1("On"))
        /\ ~(Has(l, Flag1("On")) /\ Has(l, Flag1("Oh")))

C5_Witness ==
    /\ "debug-info" \in options
    /\ Has(self.cc, Flag1("On")) /\ Has(self.cppc, Flag1("r"))

\* q is p with every separator written as a forward slash
SlashNormalized(p, q) ==
    /\ Len(q) = Len(p)
    /\ \A i \in 1..Len(p) : q[i] = (IF IsSep(p[i]) THEN SLASH ELSE p[i])

RealCompiler == IAR_PATH \o <<BSLASH, "bin", BSLASH, "iccarm">>

\* the wrapper front end: wrapper, --with-<lang>="<path>", dialect, format
IsWrapperFrontend(l, wrapper, lang) ==
    /\ Len(l) >= 4
    /\ l[1] = GOANNA_PATH \o <<BSLASH, wrapper>>
    /\ Len(l[2]) >= 7
    /\ SubSeq(l[2], 1, 6) = <<DASH, DASH, "with", DASH, lang, QUOTE>>
    /\ l[2][Len(l[2])] = QUOTE
    /\ SlashNormalized(RealCompiler, SubSeq(l[2], 7, Len(l[2]) - 1))
    /\ l[3] = <<DASH, DASH, "dialect=iar", DASH, "arm">>
    /\ l[4] = <<DASH, DASH, "output", DASH, "format=", QUOTE>> \o GOANNA_FORMAT
              \o <<QUOTE>>

PlainConfig == IAR_init(target_core, options \ {"analyze"}, IAR_PATH)
AnalyzeConfig == IAR_init(target_core, options \cup {"analyze"}, IAR_PATH)

\* C10: with and without analyze the C and C++ prefixes carry the same flags
\* after the front end (common flags, C flags, then for C++ the C++ flags);
\* the front end is the real compiler alone without analyze, and the wrapper,
\* the quoted slash-normalized compiler path, the dialect and the output
\* format with it.
C10_AnalyzeChangesOnlyFrontend ==
    /\ "analyze" \notin options =>
          /\ self.cc[1] = RealCompiler /\ self.cppc[1] = RealCompiler
          /\ Tail(self.cc) = SubSeq(AnalyzeConfig.cc, 5, Len(AnalyzeConfig.cc))
          /\ Tail(self.cppc) = SubSeq(AnalyzeConfig.cppc, 5, Len(AnalyzeConfig.cppc))
          /\ SubSeq(self.cc, 2, 4) = DEFAULT_FLAGS.common
          /\ Tail(self.cppc) = Tail(self.cc) \o cxx_flags_cmd \o DEFAULT_FLAGS.cxx
    /\ "analyze" \in options =>
          /\ IsWrapperFrontend(self.cc, "goannacc", "cc=")
          /\ IsWrapperFrontend(self.cppc, "goannac++", "cxx=")
          /\ SubSeq(self.cc, 5, Len(self.cc)) = Tail(PlainConfig.cc)
          /\ SubSeq(self.cppc, 5, Len(self.cppc)) = Tail(PlainConfig.cppc)
          /\ SubSeq(self.cc, 5, 7) = DEFAULT_FLAGS.common
          /\ SubSeq(self.cppc, 5, Len(self.cppc))
                = SubSeq(self.cc, 5, Len(self.cc)) \o cxx_flags_cmd \o DEFAULT_FLAGS.cxx

C10_Witness ==
    /\ "analyze" \in options
    /\ self.cc[1] = GOANNA_PATH \o <<BSLASH, "goannacc">>
    /\ Has(self.cc, Flag2("thumb"))

\* =================================================================
\* Properties of the returned commands
\* =================================================================
\* where the extension of a path starts: a dot of the last component that
\* no dot follows and that some character other than a dot precedes
ExtensionStarts(p) ==
    { i \in 1..Len(p) :
        /\ p[i] = DOT
        /\ \A j \in (i + 1)..Len(p) : p[j] # DOT /\ ~IsSep(p[j])
        /\ \E j \in 1..(i - 1) :
              /\ p[j] # DOT
              /\ \A k \in j..i : ~IsSep(p[k]) }

WithExtension(p, ext) ==
    IF ExtensionStarts(p) = {} THEN p \o ext
    ELSE LET i == CHOOSE j \in ExtensionStarts(p) : TRUE
         IN  SubSeq(p, 1, i - 1) \o ext

PerUnitOptions(in) ==
    [i \in 1..Len(in.symbols) |-> <<DASH, "D">> \o in.symbols[i]]
    \o << <<DASH, "f">>, get_inc_file(in.includes) >>
    \o (IF in.config_header = None THEN <<>>
        ELSE << <<DASH, DASH, "preinclude">>, in.config_header >>)

DepAndListing(in) ==
    << <<DASH, DASH, "dependencies">>, WithExtension(in.object, <<DOT, "d">>),
       <<DASH, "l">>, WithExtension(in.object, <<DOT, "s", DOT, "txt">>) >>

OutputAndSource(in) == << <<DASH, "o">>, in.object, in.source >>

PrefixOf(op) ==
    IF op = "compile_c" THEN self.cc
    ELSE IF op = "compile_cpp" THEN self.cppc
    ELSE self.asm

FooBarO == <<"foo", SLASH, "bar", DOT, "o">>

\* C6: compile_c and compile_cpp return exactly one command, the compiler
\* hook's return value for: prefix, one -D<name> per macro in the list's order,
\* -f <include-file>, --preinclude <header> only with a config header,
\* --dependencies <object with .d>, -l <object with .s.txt>, -o <object>
\* <source>; the C and C++ commands differ only in the prefix.
C6_CompileCommand ==
    \A w \in Workers :
        ret[w].op \in {"compile_c", "compile_cpp"} =>
            /\ Len(ret[w].out) = 1
            /\ ret[w].out[1] =
                  get_cmdline(ret[w].in.hook,
                              PrefixOf(ret[w].op) \o PerUnitOptions(ret[w].in)
                              \o DepAndListing(ret[w].in)
                              \o OutputAndSource(ret[w].in))
            /\ (ret[w].in.object = FooBarO /\ ret[w].in.hook = "default") =>
                  /\ Has(ret[w].out[1], <<"foo", SLASH, "bar", DOT, "d">>)
                  /\ Has(ret[w].out[1], <<"foo", SLASH, "bar", DOT, "s", DOT, "txt">>)
            /\ (ret[w].in.symbols = << <<"A">>, <<"B=2">> >>
                /\ ret[w].in.hook = "default") =>
                  \E i \in 1..Len(ret[w].out[1]) - 1 :
                      /\ ret[w].out[1][i] = <<DASH, "D", "A">>
                      /\ ret[w].out[1][i + 1] = <<DASH, "D", "B=2">>

C6_Witness ==
    /\ ret[1].op = "compile_cpp"
    /\ ret[1].in.symbols = << <<"A">>, <<"B=2">> >>
    /\ ret[1].in.object = FooBarO
    /\ ret[1].in.config_header # None
    /\ Has(ret[1].out[1], <<"foo", SLASH, "bar", DOT, "d">>)

\* C7 as stated: the command assemble returns is the assembler hook's return
\* value for: assembler prefix, per-translation-unit options, the dependency
\* flag, the listing flag derived from the object path, -o <object> <source>.
C7_AssembleHasDepAndListing ==
    \A w \in Workers :
        ret[w].op = "assemble" =>
            /\ Len(ret[w].out) = 1
            /\ ret[w].out[1] =
                  get_cmdline(ret[w].in.hook,
                              self.asm \o PerUnitOptions(ret[w].in)
                              \o DepAndListing(ret[w].in)
                              \o OutputAndSource(ret[w].in))

\* C7 amended: the command assemble returns is the assembler hook's return
\* value for: assembler prefix, per-translation-unit options, -o <object>
\* <source>, with no dependency flag and no listing flag.
C7_AssembleCommand ==
    \A w \in Workers :
        ret[w].op = "assemble" =>
            /\ Len(ret[w].out) = 1
            /\ ret[w].out[1] =
                  get_cmdline(ret[w].in.hook,
                              self.asm \o PerUnitOptions(ret[w].in)
                              \o OutputAndSource(ret[w].in))
            /\ ~Has(ret[w].out[1], <<DASH, DASH, "dependencies">>)
            /\ ~Has(ret[w].out[1], <<DASH, "l">>)

C7_Witness ==
    /\ ret[1].op = "assemble"
    /\ ret[1].in.symbols = << <<"A">>, <<"B=2">> >>
    /\ ret[1].in.object = FooBarO
    /\ Has(ret[1].out[1], FooBarO)

\* =================================================================
\* Properties of parse_output
\* =================================================================
\* <<q, d, k>>: the closing quote, the last digit and the severity of a line
\* of the vendor's form  "file",digits spaces Warning|Error message
ClosingQuotes(line) ==
    { q \in 3..Len(line) :
        /\ line[1] = QUOTE /\ line[q] = QUOTE
        /\ \A i \in 2..(q - 1) : line[i] # QUOTE
        /\ q + 1 <= Len(line) /\ line[q + 1] = "," }

LastDigits(line, q) ==
    { d \in (q + 2)..Len(line) : \A i \in (q + 2)..d : line[i] \in Digits }

SeverityAt(line, d) ==
    { k \in (d + 2)..Len(line) :
        /\ \A i \in (d + 1)..(k - 1) : line[i] \in {SPACE, NEWLINE}
        /\ line[k] \in {"Warning", "Error"}
        /\ Len(line) > k }

VendorShapes(line) ==
    UNION { UNION { { <<q, d, k>> : k \in SeverityAt(line, d) }
                    : d \in LastDigits(line, q) }
            : q \in ClosingQuotes(line) }

VendorRecord(line) ==
    LET t == CHOOSE u \in VendorShapes(line) : TRUE
    IN  [severity |-> IF line[t[3]] = "Warning" THEN "warning" ELSE "error",
         file |-> SubSeq(line, 2, t[1] - 1),
         line |-> SubSeq(line, t[1] + 2, t[2]),
         message |-> SubSeq(line, t[3] + 1, Len(line)),
         target_name |-> target_name, toolchain_name |-> toolchain_name]

AnalysisRecord(line) ==
    LET m == goanna_parse_line(line)
    IN  [severity |-> m.severity, file |-> m.file, line |-> m.line,
         message |-> m.message, target_name |-> None, toolchain_name |-> None]

ExpectedRecords(line) ==
    (IF VendorShapes(line) # {} THEN << VendorRecord(line) >> ELSE <<>>)
    \o (IF goanna_parse_line(line).matched THEN << AnalysisRecord(line) >> ELSE <<>>)

MatchCount(line) ==
    (IF VendorShapes(line) # {} THEN 1 ELSE 0)
    + (IF goanna_parse_line(line).matched THEN 1 ELSE 0)

RECURSIVE SumMatches(_)
SumMatches(lines) ==
    IF lines = <<>> THEN 0 ELSE MatchCount(Head(lines)) + SumMatches(Tail(lines))

\* C8: parse_output takes the lines in order and emits, per line, one record
\* per pattern the line matches (none, one or two), the vendor record before
\* the analysis record; a vendor record carries the lowercased severity, the
\* quoted file path and the line number.
C8_RecordsPerLine ==
    \A w \in Workers :
        ret[w].op = "parse_output" =>
            /\ ret[w].out
                  = Flatten([i \in 1..Len(ret[w].in.lines) |->
                                ExpectedRecords(ret[w].in.lines[i])])
            /\ Len(ret[w].out) = SumMatches(ret[w].in.lines)
            /\ ret[w].in.lines = << Line_warning >> =>
                  /\ Len(ret[w].out) = 1
                  /\ ret[w].out[1].severity = "warning"
                  /\ ret[w].out[1].file = <<"main", DOT, "c">>
                  /\ ret[w].out[1].line = <<"1", "2">>
            /\ ret[w].in.lines = << Line_banner >> => ret[w].out = <<>>

C8_Witness ==
    /\ ret[1].op = "parse_output"
    /\ ret[1].in.lines = << Line_both, Line_banner >>
    /\ Len(ret[1].out) = 2
    /\ ret[1].out[1].toolchain_name = toolchain_name
    /\ ret[1].out[2].toolchain_name = None

\* =================================================================
\* Properties of link and archive
\* =================================================================
Slashes(c) == [i \in 1..Len(c) |-> IF c[i] = BSLASH THEN SLASH ELSE c[i]]

WrittenToken(c) == IF c # <<>> /\ c[1] = DASH THEN Slashes(c) ELSE quoted(Slashes(c))

NonEmpty(c) == c # <<>>

LinkerRun(r) == r.exec = << r.cmd[1], <<DASH, "f">>, r.response >>

\* C3 as stated: the response file holds, in order, every token of the
\* hook's command but the first, a token starting with - unquoted and every
\* other token in double quotes with forward slashes; the linker then runs
\* as [executable, -f, response-file].
C3_EveryTokenWritten ==
    \A w \in Workers :
        ret[w].op = "link" =>
            /\ ret[w].written
                  = join_space([i \in 1..(Len(ret[w].cmd) - 1) |->
                                   WrittenToken(ret[w].cmd[i + 1])])
            /\ LinkerRun(ret[w])

\* C3 amended: the response file holds, in order, every non-empty token of
\* the hook's command but the first (an empty token is left out), a token
\* starting with - unquoted and every other token in double quotes,
\* backslashes rewritten to forward slashes in all of them; the linker then
\* runs as [executable, -f, response-file].
C3_EveryNonEmptyTokenWritten ==
    \A w \in Workers :
        ret[w].op = "link" =>
            /\ LET tokens == SelectSeq(Tail(ret[w].cmd), NonEmpty)
               IN  ret[w].written
                      = join_space([i \in 1..Len(tokens) |-> WrittenToken(tokens[i])])
            /\ LinkerRun(ret[w])
            /\ ret[w].read = ret[w].written

C3_Witness ==
    /\ ret[1].op = "link"
    /\ ret[1].in.objects = << <<>>, <<"obj", BSLASH, "b", DOT, "o">> >>
    /\ ret[1].in.output = <<"build", BSLASH, "b", DOT, "elf">>
    /\ Truthy(ret[1].in.mem_map)
    /\ ret[1].read = ret[1].written

\* C4: archive writes the response file with every object path of the input
\* list, double-quoted and slash-normalized, in input order; then removes the
\* file at the library path if there is one; only then runs the archiver with
\* -f <response-file>, and no file is at the library path when it runs.
C4_ArchiveOrder ==
    \A w \in Workers :
        ret[w].op = "archive" =>
            /\ ret[w].written
                  = join_space([i \in 1..Len(ret[w].in.objects) |->
                                   quoted(Slashes(ret[w].in.objects[i]))])
            /\ ret[w].log = (IF ret[w].existed THEN << "write", "remove", "exec" >>
                             ELSE << "write", "exec" >>)
            /\ ~ret[w].lib_at_exec
            /\ ret[w].exec = << self.ar, ret[w].in.lib_path, <<DASH, "f">>,
                                ret[w].response >>
            /\ ret[w].read = ret[w].written

C4_Witness ==
    /\ ret[1].op = "archive"
    /\ ret[1].existed
    /\ ret[1].log = << "write", "remove", "exec" >>
    /\ ret[1].in.objects = << <<"obj", BSLASH, "b", DOT, "o">>, <<"a", DOT, "o">> >>

\* =================================================================
\* Properties of concurrent calls
\* =================================================================
\* C2: between the write of its response file and the run of its tool, the
\* response file of a link or archive invocation holds what that invocation
\* wrote: no concurrent invocation for another output writes the same path.
C2_ResponseFileNotOverwritten ==
    \A w \in Workers :
        pc[w] \in {"link_exec", "archive_remove", "archive_exec"} =>
            /\ read_file(fs, call[w].response) = call[w].written
            /\ \A v \in Workers \ {w} :
                  pc[v] \in {"link_exec", "archive_remove", "archive_exec"} =>
                      call[v].response # call[w].response

\* C9: whatever calls the workers make, in whatever order, the stored
\* configuration stays what the constructor stored, and a returned compile
\* command starts with the constructor's prefix and nothing more.
C9_ConfigurationUnchanged ==
    /\ self = IAR_init(target_core, options, IAR_PATH)
    /\ \A w \in Workers :
          ret[w].op \in {"assemble", "compile_c", "compile_cpp"} =>
              Len(ret[w].out[1])
                 = Len(PrefixOf(ret[w].op)) + Len(PerUnitOptions(ret[w].in)) + 3
                   + (IF ret[w].op = "assemble" THEN 0 ELSE 4)

C9_Witness ==
    /\ ret[1].op = "compile_c"
    /\ pc[2] = "archive_exec"
    /\ exists(fs, <<"build", BSLASH, DOT, "link_files", DOT, "txt">>)

====
